---- MODULE Spec2Model ----
(***************************************************************************)
(* A model of myrepo: the package resolver (tooling/packages.py) and the   *)
(* process session (system/workers.py).                                    *)
(*                                                                         *)
(* Python str and bytes values are sequences of character codes, so that   *)
(* parsing, splitting, slicing and comparing are computed as Python        *)
(* computes them.                                                          *)
(***************************************************************************)
EXTENDS Integers, Sequences, FiniteSets, TLC

\* ------------------------------------------------------------------------
\* Python string primitives

Min(S) == CHOOSE x \in S : \A y \in S : x <= y
Max(S) == CHOOSE x \in S : \A y \in S : x >= y

\* Python's None, a value no string is equal to.
None == <<-1>>

\* bool(x) of a value that is a str or None.
Truthy(x) == x # None /\ x # <<>>

\* The (0-based) offsets at which sub occurs in s.
Occurrences(s, sub) ==
    {k \in 0..(Len(s) - Len(sub)) : SubSeq(s, k + 1, k + Len(sub)) = sub}

\* sub in s
Contains(s, sub) == Occurrences(s, sub) # {}

\* s.find(sub) and s.rfind(sub): -1 when sub does not occur.
Find(s, sub) == IF Contains(s, sub) THEN Min(Occurrences(s, sub)) ELSE -1
RFind(s, sub) == IF Contains(s, sub) THEN Max(Occurrences(s, sub)) ELSE -1

\* A slice bound as Python clamps it: a negative bound counts from the end.
SliceBound(k, n) == IF k < 0 THEN (IF n + k < 0 THEN 0 ELSE n + k)
                    ELSE (IF k > n THEN n ELSE k)

\* s[i:j]
PySlice(s, i, j) ==
    LET a == SliceBound(i, Len(s))
        b == SliceBound(j, Len(s))
    IN  IF a >= b THEN <<>> ELSE SubSeq(s, a + 1, b)

\* s[i:]
PySliceFrom(s, i) == PySlice(s, i, Len(s))

\* s.split(sep): every occurrence, left to right.
RECURSIVE Split(_, _)
Split(s, sep) ==
    IF ~Contains(s, sep) THEN <<s>>
    ELSE LET k == Find(s, sep)
         IN  <<SubSeq(s, 1, k)>> \o Split(SubSeq(s, k + Len(sep) + 1, Len(s)), sep)

\* s.split(sep, 1): at the first occurrence only.
Split1(s, sep) ==
    IF ~Contains(s, sep) THEN <<s>>
    ELSE LET k == Find(s, sep)
         IN  <<SubSeq(s, 1, k), SubSeq(s, k + Len(sep) + 1, Len(s))>>

\* s.rsplit(sep, 1): at the last occurrence only.
RSplit1(s, sep) ==
    IF ~Contains(s, sep) THEN <<s>>
    ELSE LET k == RFind(s, sep)
         IN  <<SubSeq(s, 1, k), SubSeq(s, k + Len(sep) + 1, Len(s))>>

\* a > b on two str values: lexicographic on the character codes.
RECURSIVE StrGT(_, _)
StrGT(a, b) ==
    IF a = <<>> THEN FALSE
    ELSE IF b = <<>> THEN TRUE
    ELSE IF Head(a) # Head(b) THEN Head(a) > Head(b)
    ELSE StrGT(Tail(a), Tail(b))

\* Character codes of the characters the model's strings use.
chNL == 10
chESC == 27
chDash == 45
chDot == 46
ch0 == 48
ch1 == ch0 + 1
ch2 == ch0 + 2
ch3 == ch0 + 3
ch9 == 57
chSemi == 59
chLT == 60
chEQ == 61
chGT == 62
chQuest == 63
chLBracket == 91
chLowerA == 97
chLowerB == chLowerA + 1
chLowerC == chLowerA + 2
chLowerM == chLowerA + 12

\* ------------------------------------------------------------------------
\* VersionDef

\* VersionDef.__init__: the three fields. The suffix split off the last
\* component is stored in patch only; `versions` itself keeps the suffix.
VersionDef(version_string) ==
    LET versions == IF Contains(version_string, <<chDot>>)
                    THEN Split(version_string, <<chDot>>)
                    ELSE <<version_string>>
        last == versions[Len(versions)]
        suffix == IF Contains(last, <<chDash>>)
                  THEN Split1(last, <<chDash>>)[2]
                  ELSE None
    IN  [raw |-> version_string,
         major |-> versions[1],
         minor |-> IF Len(versions) >= 2 THEN versions[2] ELSE None,
         patch |-> IF Len(versions) >= 3 THEN versions[3] ELSE suffix]

\* VersionDef.__eq__
VersionEq(self, other) ==
    /\ other.major = self.major
    /\ other.minor = self.minor
    /\ other.patch = self.patch

\* __lt__ answers True wherever the code falls off its end.
VersionLtOrEqual(self, other) ==
    IF StrGT(self.major, other.major) THEN "False"
    ELSE IF Truthy(self.minor) /\ Truthy(other.minor)
            /\ StrGT(self.minor, other.minor) THEN "False"
    ELSE IF Truthy(self.patch) /\ Truthy(other.patch)
            /\ StrGT(self.patch, other.patch) THEN "False"
    ELSE "True"

\* VersionDef.__lt__: "False" on the three returns, "None" when the
\* function falls off its end. It never returns True.
VersionLt(self, other) ==
    IF StrGT(self.major, other.major) THEN "False"
    ELSE IF Truthy(self.minor) /\ Truthy(other.minor)
            /\ StrGT(self.minor, other.minor) THEN "False"
    ELSE IF Truthy(self.patch) /\ Truthy(other.patch)
            /\ StrGT(self.patch, other.patch) THEN "False"
    ELSE "None"

\* self > other: VersionDef defines no __gt__, so Python evaluates the
\* reflected other.__lt__(self).
VersionGt(self, other) == VersionLt(other, self)

\* self != other: the default __ne__ inverts __eq__.
VersionNe(self, other) == ~VersionEq(self, other)

\* bool(v) of what a comparison returned.
IsTrue(v) == v = "True"

\* ------------------------------------------------------------------------
\* The resolver's inputs

\* Bounds of the model.
MaxSpecs == 2
MaxDeps == 1
MaxMirrors == 2
MaxLines == 1
MaxDepth == 3
MaxCalls == 2

SeqsUpTo(S, n) == UNION {[1..k -> S] : k \in 0..n}

\* Package names.
NameA == <<chLowerA>>
NameB == <<chLowerB>>
NameC == <<chLowerC>>
Names == {NameA, NameB, NameC}

\* The names a spec list and a lookup tool's output are drawn from; the
\* third name comes up as a dependency only.
ListedNames == {NameA, NameB}

\* Version strings: 1.1.9, 1.2.0, 1.3.0 and 1.0-1.
V119 == <<ch1, chDot, ch1, chDot, ch9>>
V120 == <<ch1, chDot, ch2, chDot, ch0>>
V130 == <<ch1, chDot, ch3, chDot, ch0>>
V101 == <<ch1, chDot, ch0, chDash, ch1>>

\* The versions the search endpoint may report for a package.
PkgVersions(n) == IF n = NameA THEN {V119, V120, V130} ELSE {V101}

\* The constraint operators of a spec token.
OpGE == <<chGT, chEQ>>
OpLE == <<chLT, chEQ>>
OpGT == <<chGT>>
OpLT == <<chLT>>
OpEQ == <<chEQ>>

\* Spec tokens: a bare name, or a constraint on package a.
ConstrainedTokens ==
    {NameA \o op \o V120 : op \in {OpGE, OpLE, OpGT, OpLT, OpEQ}}
        \cup {NameA \o OpEQ \o V119 \o <<chDash>> \o V120}
SpecTokens == ListedNames \cup ConstrainedTokens

\* Repositories, and the flag the command line gives each.
Repos == {"core", "extra"}

\* A search result (PackageSearchResult), a group, or nothing. The search
\* endpoint does not know the third name.
NoInfo == [kind |-> "unbound", pkgname |-> <<>>, pkgver |-> <<>>,
           repo |-> "", depends |-> <<>>]
SearchOutcomes(n) ==
    IF n \in ListedNames
    THEN {[kind |-> "none", pkgname |-> n, pkgver |-> <<>>, repo |-> "", depends |-> <<>>],
          [kind |-> "group", pkgname |-> n, pkgver |-> <<>>, repo |-> "", depends |-> <<>>]}
         \cup {[kind |-> "pkg", pkgname |-> n, pkgver |-> v, repo |-> r, depends |-> d] :
                 v \in PkgVersions(n), r \in Repos, d \in SeqsUpTo(Names, MaxDeps)}
    ELSE {[kind |-> "none", pkgname |-> n, pkgver |-> <<>>, repo |-> "", depends |-> <<>>]}

\* What a lookup tool prints and how it exits: `repo/name` lines.
NoRun == [exit |-> -1, lines |-> <<>>]
ToolLines == SeqsUpTo([repo : Repos, name : ListedNames], MaxLines)
ToolOutcomes == {[exit |-> 256, lines |-> <<>>]}
                    \cup {[exit |-> 0, lines |-> l] : l \in ToolLines}

\* The URL scheme of a mirror definition.
Schemes == {"https", "ftp"}

\* The flags of the command line: core is left enabled, extra either way.
ArgumentChoices == {f \in [Repos -> BOOLEAN] : f["core"]}

\* ------------------------------------------------------------------------
\* sync_packages: the state

VARIABLES
    packages,       \* the spec list of the top-level call
    arguments,      \* storage['arguments']: the flag of each repository
    mirrors,        \* storage['mirrors'], in list order
    searchApi,      \* what the search endpoint answers for each name asked
    pkgfileTool,    \* what `pkgfile <name>` prints, for each name asked
    pacmanTool,     \* what `pacman -Ss <name>` prints, for each name asked
    stack,          \* the frames of sync_packages, the running one last
    skip,           \* the `skip` list every frame shares
    outcome,        \* "running", "returned", or the exception that ended the run
    returned,       \* the list the top-level call returned
    searched,       \* the names find_package was called with, in order
    toolRuns,       \* the lookup tools run, in order
    attempts,       \* the mirror attempts made, in order
    fetched,        \* the artifacts written, in order
    repoAdds,       \* the repo-add commands run, in order
    calls,          \* the top-level calls of sync_packages made so far
    stored          \* the packages whose artifact file is at its destination

syncVars == <<packages, arguments, mirrors, searchApi, pkgfileTool, pacmanTool,
              stack, skip, outcome, returned, searched, toolRuns, attempts, fetched,
              repoAdds, calls, stored>>

\* storage['repositories']: RepositoryStruct built from the same flags.
repositories == arguments

\* The one-character operators are looked for before the two-character ones.
ParseSpecShortFirst(token) ==
    LET at(op) == RSplit1(token, op)
        plain == [package |-> token, target_version |-> None, gt |-> FALSE,
                  lt |-> FALSE, ge |-> FALSE, le |-> FALSE, specific |-> None]
    IN  IF Contains(token, OpGT)
        THEN [plain EXCEPT !.package = at(OpGT)[1], !.target_version = at(OpGT)[2],
                           !.gt = TRUE]
        ELSE IF Contains(token, OpLT)
        THEN [plain EXCEPT !.package = at(OpLT)[1], !.target_version = at(OpLT)[2],
                           !.lt = TRUE]
        ELSE IF Contains(token, OpEQ)
        THEN [plain EXCEPT !.package = at(OpEQ)[1], !.target_version = at(OpEQ)[2],
                           !.specific = at(OpEQ)[2]]
        ELSE plain

\* Lines 152-178: the name and the constraint of one spec token. A flag is
\* TRUE where the code binds it to a VersionDef (a truthy object).
ParseSpec(token) ==
    LET at(op) == RSplit1(token, op)
        plain == [package |-> token, target_version |-> None, gt |-> FALSE,
                  lt |-> FALSE, ge |-> FALSE, le |-> FALSE, specific |-> None]
    IN  IF Contains(token, OpGE)
        THEN [plain EXCEPT !.package = at(OpGE)[1], !.target_version = at(OpGE)[2],
                           !.ge = TRUE]
        ELSE IF Contains(token, OpGT)
        THEN [plain EXCEPT !.package = at(OpGT)[1], !.target_version = at(OpGT)[2],
                           !.gt = TRUE]
        ELSE IF Contains(token, OpLE)
        THEN [plain EXCEPT !.package = at(OpLE)[1], !.target_version = at(OpLE)[2],
                           !.le = TRUE]
        ELSE IF Contains(token, OpLT)
        THEN [plain EXCEPT !.package = at(OpLT)[1], !.target_version = at(OpLT)[2],
                           !.lt = TRUE]
        ELSE IF Contains(token, OpEQ)
        THEN IF Contains(at(OpEQ)[2], <<chDash>>)
             THEN [plain EXCEPT !.package = at(OpEQ)[1],
                                !.target_version = at(OpEQ)[2],
                                !.ge = TRUE, !.le = TRUE]
             ELSE [plain EXCEPT !.package = at(OpEQ)[1],
                                !.target_version = at(OpEQ)[2],
                                !.specific = at(OpEQ)[2]]
        ELSE plain

\* Lines 235-247: whether the constraint check raises PackageError.
ConstraintRaises(con, pkgver) ==
    LET version == VersionDef(pkgver)
        target == VersionDef(con.target_version)
    IN  /\ Truthy(con.target_version)
        /\ IF con.gt /\ IsTrue(VersionLt(version, target)) THEN TRUE
           ELSE IF con.ge /\ IsTrue(VersionLt(version, target))
                   /\ VersionNe(version, target) THEN TRUE
           ELSE IF con.lt /\ IsTrue(VersionGt(version, target)) THEN TRUE
           ELSE IF con.le /\ IsTrue(VersionGt(version, target))
                   /\ VersionNe(version, target) THEN TRUE
           ELSE IF con.specific # None
                   /\ VersionNe(version, VersionDef(con.specific)) THEN TRUE
           ELSE FALSE

\* A frame of sync_packages at its first statement.
NewFrame(pkgs) ==
    [pkgs |-> pkgs, i |-> 1, pc |-> "loop", package |-> <<>>,
     con |-> ParseSpec(<<>>), package_info |-> NoInfo,
     repositories_to_update |-> {}, found_fildep |-> FALSE, cand |-> <<>>, m |-> 1]

Top == stack[Len(stack)]
Below == SubSeq(stack, 1, Len(stack) - 1)
Running == outcome = "running" /\ stack # <<>>

\* The frame with some fields changed.
SetTop(f) == Below \o <<f>>

\* `continue`, or the end of the loop body: on to the next spec.
NextSpec(f) == [f EXCEPT !.i = @ + 1, !.pc = "loop"]

\* The running frame swallows the exception and goes on with the next spec.
RaiseSwallowed(exc) ==
    /\ stack' = Below \o <<[stack[Len(stack)] EXCEPT !.i = @ + 1, !.pc = "loop"]>>
    /\ outcome' = outcome

\* Lines 204, 224, 282: list(set(repositories_to_update + sync_packages(...))).
Merged(own, result) == own \cup result

\* An exception leaving the frames `frames`: the only handler between a
\* frame and its caller is `except SysCallError` around the pkgfile loop
\* (lines 196-215), which turns to the pacman search.
RECURSIVE Unwind(_, _)
Unwind(frames, exc) ==
    IF frames = <<>> THEN <<>>
    ELSE LET f == frames[Len(frames)]
             rest == SubSeq(frames, 1, Len(frames) - 1)
         IN  IF exc = "SysCallError" /\ f.pc = "call_pkgfile"
             THEN rest \o <<[f EXCEPT !.pc = "pacman"]>>
             ELSE Unwind(rest, exc)

\* The running frame raises exc.
Raise(exc) ==
    LET left == Unwind(Below, exc)
    IN  /\ stack' = left
        /\ outcome' = IF left = <<>> THEN exc ELSE "running"

\* The running frame calls sync_packages(pkgs, path, skip) from `site`.
Call(f, site, pkgs) ==
    IF Len(stack) >= MaxDepth
    THEN /\ stack' = <<>>
         /\ outcome' = "RecursionError"
    ELSE /\ stack' = SetTop([f EXCEPT !.pc = site]) \o <<NewFrame(pkgs)>>
         /\ outcome' = outcome

\* The first line of a tool's output whose repository is not disabled
\* (lines 201-202 and 221-222), 0 when there is none.
FirstEnabled(lines) ==
    LET ok == {k \in 1..Len(lines) : repositories[lines[k].repo] # FALSE}
    IN  IF ok = {} THEN 0 ELSE Min(ok)

SyncInit ==
    /\ packages \in SeqsUpTo(SpecTokens, MaxSpecs)
    /\ arguments \in ArgumentChoices
    /\ mirrors \in SeqsUpTo(Schemes, MaxMirrors)
    /\ searchApi = [n \in Names |-> NoInfo]
    /\ pkgfileTool = [n \in Names |-> NoRun]
    /\ pacmanTool = [n \in Names |-> NoRun]
    /\ stack = <<>>
    /\ skip = <<>>
    /\ outcome = "setup"
    /\ returned = {}
    /\ searched = <<>>
    /\ toolRuns = <<>>
    /\ attempts = <<>>
    /\ fetched = <<>>
    /\ repoAdds = <<>>
    /\ calls = 0
    /\ stored = {}

\* ------------------------------------------------------------------------
\* sync_packages: the steps

Range(q) == {q[k] : k \in 1..Len(q)}

\* Line 180: `package in skip`.
AlreadyVisitedNever(package, visited) == FALSE
AlreadyVisited(package, visited) == package \in Range(visited)

\* Line 280: skip.append(package).
MarkVisitedForgotten(visited, package) == visited
MarkVisited(visited, package) == Append(visited, package)

\* Line 254: getattr(storage['arguments'], repo) is False.
RepoBlockedNever(repo) == FALSE
RepoBlocked(repo) == arguments[repo] = FALSE

\* What an endpoint or tool answers for name n: the answer it gave before,
\* or, the first time, any of the possible ones.
Answers(memo, n, unasked, possible) ==
    IF memo[n] = unasked THEN possible ELSE {memo[n]}

\* The repositories setup_destination goes through (paths.py:7), in order.
SetupOrder == <<"core", "extra">>

\* The exit statuses of repo-add: 0, 1 (status word 256, which the callers
\* accept as well) and 2 (status word 512).
RepoAddStatuses == {0, 256, 512}
RepoAddAccepted(status) == status \in {0, 256}

\* __main__ lines 13-16: setup_destination (paths.py:6-18) runs repo-add on
\* the database of every repository, enabled or not; then sync_packages is
\* called with the package list and no `skip`.
SetupDestination ==
    /\ outcome = "setup"
    /\ \E status \in RepoAddStatuses :
         IF RepoAddAccepted(status)
         THEN /\ repoAdds' = [k \in 1..Len(SetupOrder) |->
                                [db |-> SetupOrder[k], target |-> "__init__",
                                 by |-> "setup_destination"]]
              /\ outcome' = "running"
              /\ stack' = <<NewFrame(packages)>>
              /\ calls' = 1
         ELSE /\ repoAdds' = <<[db |-> SetupOrder[1], target |-> "__init__",
                                by |-> "setup_destination"]>>
              /\ outcome' = "RepositoryError"
              /\ UNCHANGED <<stack, calls>>
    /\ UNCHANGED <<packages, arguments, mirrors, searchApi, pkgfileTool, pacmanTool,
                   skip, returned, searched, toolRuns, attempts, fetched, stored>>

\* A further top-level call sync_packages(packages, path) by the same
\* process: `skip` is the default argument's list object (line 146).
SyncAgain ==
    /\ outcome = "returned"
    /\ calls < MaxCalls
    /\ calls' = calls + 1
    /\ outcome' = "running"
    /\ stack' = <<NewFrame(packages)>>
    /\ UNCHANGED <<packages, arguments, mirrors, searchApi, pkgfileTool, pacmanTool,
                   skip, returned, searched, toolRuns, attempts, fetched, repoAdds,
                   stored>>

\* Line 150 with no spec left, then line 284: the frame returns its list to
\* the call site (lines 204, 224, 282), which merges it into its own.
SyncReturn ==
    /\ Running
    /\ Top.pc = "loop"
    /\ Top.i > Len(Top.pkgs)
    /\ IF Below = <<>>
       THEN /\ stack' = <<>>
            /\ outcome' = "returned"
            /\ returned' = Top.repositories_to_update
       ELSE LET caller == stack[Len(stack) - 1]
                merged == [caller EXCEPT !.repositories_to_update =
                                            Merged(@, Top.repositories_to_update)]
                resumed == IF caller.pc = "call_dep" THEN NextSpec(merged)
                           ELSE IF caller.pc = "call_pkgfile"
                           THEN [merged EXCEPT !.pc = "after_pkgfile"]
                           ELSE [merged EXCEPT !.pc = "after_pacman"]
            IN  /\ stack' = SubSeq(stack, 1, Len(stack) - 2) \o <<resumed>>
                /\ UNCHANGED <<outcome, returned>>
    /\ UNCHANGED <<stored, repoAdds, calls, packages, arguments, mirrors, searchApi, pkgfileTool, pacmanTool,
                   skip, searched, toolRuns, attempts, fetched>>

\* Lines 150-182: the next spec names a package already in `skip`.
SkipVisited ==
    /\ Running
    /\ Top.pc = "loop"
    /\ Top.i <= Len(Top.pkgs)
    /\ LET con == ParseSpec(Top.pkgs[Top.i])
       IN  /\ AlreadyVisited(con.package, skip)
           /\ stack' = SetTop(NextSpec([Top EXCEPT !.package = con.package,
                                                   !.con = con]))
    /\ UNCHANGED <<stored, repoAdds, calls, packages, arguments, mirrors, searchApi, pkgfileTool, pacmanTool,
                   skip, outcome, returned, searched, toolRuns, attempts, fetched>>

\* Lines 150-194: the next spec is parsed and looked up with find_package:
\* a result, IsGroup (the spec is skipped) or PackageError (on to pkgfile).
FindPackage ==
    /\ Running
    /\ Top.pc = "loop"
    /\ Top.i <= Len(Top.pkgs)
    /\ LET con == ParseSpec(Top.pkgs[Top.i])
           f == [Top EXCEPT !.package = con.package, !.con = con]
       IN  /\ ~AlreadyVisited(con.package, skip)
           /\ \E r \in Answers(searchApi, con.package, NoInfo,
                               SearchOutcomes(con.package)) :
                /\ searchApi' = [searchApi EXCEPT ![con.package] = r]
                /\ searched' = Append(searched, con.package)
                /\ stack' = SetTop(
                      IF r.kind = "pkg"
                      THEN [f EXCEPT !.package_info = r, !.pc = "check"]
                      ELSE IF r.kind = "group" THEN NextSpec(f)
                      ELSE [f EXCEPT !.found_fildep = FALSE, !.pc = "pkgfile"])
    /\ UNCHANGED <<stored, repoAdds, calls, packages, arguments, mirrors, pkgfileTool, pacmanTool,
                   skip, outcome, returned, toolRuns, attempts, fetched>>

\* Lines 196-215: `pkgfile <package>` is run. A non-zero exit is a
\* SysCallError, caught by turning to pacman. Otherwise the first line of an
\* enabled repository is resolved recursively; with no such line the code
\* leaves the try block and goes on at line 235.
Pkgfile ==
    /\ Running
    /\ Top.pc = "pkgfile"
    /\ \E o \in Answers(pkgfileTool, Top.package, NoRun, ToolOutcomes) :
         LET k == FirstEnabled(o.lines)
         IN  /\ pkgfileTool' = [pkgfileTool EXCEPT ![Top.package] = o]
             /\ toolRuns' = Append(toolRuns, [tool |-> "pkgfile", name |-> Top.package])
             /\ IF o.exit # 0
                THEN /\ stack' = SetTop([Top EXCEPT !.pc = "pacman"])
                     /\ UNCHANGED outcome
                ELSE IF k = 0
                THEN /\ stack' = SetTop([Top EXCEPT !.pc = "check"])
                     /\ UNCHANGED outcome
                ELSE Call([Top EXCEPT !.cand = o.lines[k].name], "call_pkgfile",
                          <<o.lines[k].name>>)
    /\ UNCHANGED <<stored, repoAdds, calls, packages, arguments, mirrors, searchApi, pacmanTool,
                   skip, returned, searched, attempts, fetched>>

\* Lines 206-213: after the recursive call for a pkgfile candidate, the
\* candidate is appended to `skip` and looked up again; `continue`.
AfterPkgfile ==
    /\ Running
    /\ Top.pc = "after_pkgfile"
    /\ skip' = Append(skip, Top.cand)
    /\ \E r \in Answers(searchApi, Top.cand, NoInfo, SearchOutcomes(Top.cand)) :
         /\ searchApi' = [searchApi EXCEPT ![Top.cand] = r]
         /\ searched' = Append(searched, Top.cand)
         /\ IF r.kind = "pkg"
            THEN /\ stack' = SetTop(NextSpec([Top EXCEPT !.package_info = r,
                                                         !.found_fildep = TRUE]))
                 /\ UNCHANGED outcome
            ELSE IF r.kind = "group" THEN Raise("IsGroup")
            ELSE Raise("PackageError")
    /\ UNCHANGED <<stored, repoAdds, calls, packages, arguments, mirrors, pkgfileTool, pacmanTool,
                   returned, toolRuns, attempts, fetched>>

\* Lines 217-233: `pacman -Ss <package>` is run, inside the SysCallError
\* handler: its own non-zero exit leaves the frame. The first line of an
\* enabled repository is resolved recursively; with none, PackageError.
Pacman ==
    /\ Running
    /\ Top.pc = "pacman"
    /\ \E o \in Answers(pacmanTool, Top.package, NoRun, ToolOutcomes) :
         LET k == FirstEnabled(o.lines)
         IN  /\ pacmanTool' = [pacmanTool EXCEPT ![Top.package] = o]
             /\ toolRuns' = Append(toolRuns, [tool |-> "pacman", name |-> Top.package])
             /\ IF o.exit # 0 THEN Raise("SysCallError")
                ELSE IF k = 0 THEN Raise("PackageError")
                ELSE Call([Top EXCEPT !.cand = o.lines[k].name], "call_pacman",
                          <<o.lines[k].name>>)
    /\ UNCHANGED <<stored, repoAdds, calls, packages, arguments, mirrors, searchApi, pkgfileTool,
                   skip, returned, searched, attempts, fetched>>

\* Lines 225-231: after the recursive call for a pacman candidate, the
\* candidate is looked up again; `continue`.
AfterPacman ==
    /\ Running
    /\ Top.pc = "after_pacman"
    /\ \E r \in Answers(searchApi, Top.cand, NoInfo, SearchOutcomes(Top.cand)) :
         /\ searchApi' = [searchApi EXCEPT ![Top.cand] = r]
         /\ searched' = Append(searched, Top.cand)
         /\ IF r.kind = "pkg"
            THEN /\ stack' = SetTop(NextSpec([Top EXCEPT !.package_info = r,
                                                         !.found_fildep = TRUE]))
                 /\ UNCHANGED outcome
            ELSE IF r.kind = "group" THEN Raise("IsGroup")
            ELSE Raise("PackageError")
    /\ UNCHANGED <<stored, repoAdds, calls, packages, arguments, mirrors, pkgfileTool, pacmanTool,
                   skip, returned, toolRuns, attempts, fetched>>

\* Lines 235-260: the constraint check and the repository check on
\* package_info, which is whatever the frame last bound it to. Line 250
\* tests the bound method `.exists`, true whatever is on disk, and its
\* branch only logs: the step is the same with the artifact stored or not.
CheckPackage ==
    /\ Running
    /\ Top.pc = "check"
    /\ IF Top.package_info = NoInfo THEN Raise("UnboundLocalError")
       ELSE IF ConstraintRaises(Top.con, Top.package_info.pkgver)
       THEN Raise("PackageError")
       ELSE IF RepoBlocked(Top.package_info.repo) THEN Raise("PackageError")
       ELSE /\ stack' = SetTop([Top EXCEPT
                    !.repositories_to_update = @ \cup {Top.package_info.repo},
                    !.m = 1, !.pc = "mirror"])
            /\ UNCHANGED outcome
    /\ UNCHANGED <<stored, repoAdds, calls, packages, arguments, mirrors, searchApi, pkgfileTool, pacmanTool,
                   skip, returned, searched, toolRuns, attempts, fetched>>

\* download_package (lines 78-101) for a mirror of the given scheme: repo-add
\* is run on the repository's database first (an unaccepted status leads to
\* `raise RepositoryError`, a name packages.py does not import), then the
\* fetch (urlopen) succeeds or raises: it returns True or raises.
DownloadPackage(scheme, status, reachable) ==
    IF scheme \in {"https", "http"}
    THEN IF ~RepoAddAccepted(status) THEN "NameError"
         ELSE IF reachable THEN "True" ELSE "URLError"
    ELSE "PackageError"

\* Lines 263-282: the next mirror is tried. download_package returns True
\* or raises; on True the loop breaks, the package is appended to `skip` and
\* its dependencies are resolved recursively.
TryMirror ==
    /\ Running
    /\ Top.pc = "mirror"
    /\ Top.m <= Len(mirrors)
    /\ \E reachable \in BOOLEAN, status \in RepoAddStatuses :
       LET got == DownloadPackage(mirrors[Top.m], status, reachable)
           info == Top.package_info
       IN  /\ repoAdds' = IF mirrors[Top.m] \in {"https", "http"}
                          THEN Append(repoAdds, [db |-> info.repo, target |-> "__init__",
                                                 by |-> "download_package"])
                          ELSE repoAdds
           /\ attempts' = Append(attempts, [package |-> Top.package, repo |-> info.repo,
                                            mirror |-> Top.m, result |-> got])
           /\ IF got = "True"
              THEN /\ fetched' = Append(fetched,
                          [package |-> Top.package, pkgname |-> info.pkgname,
                           repo |-> info.repo, mirror |-> Top.m])
                   /\ stored' = stored \cup {info.pkgname}
                   /\ skip' = MarkVisited(skip, Top.package)
                   /\ IF info.depends # <<>>
                      THEN Call(Top, "call_dep", info.depends)
                      ELSE /\ stack' = SetTop(NextSpec(Top))
                           /\ UNCHANGED outcome
              ELSE /\ Raise(got)
                   /\ UNCHANGED <<fetched, skip, stored>>
    /\ UNCHANGED <<calls, packages, arguments, mirrors, searchApi, pkgfileTool, pacmanTool,
                   returned, searched, toolRuns>>

\* Lines 277-278: the mirror loop ended without a download.
MirrorsExhausted ==
    /\ Running
    /\ Top.pc = "mirror"
    /\ Top.m > Len(mirrors)
    /\ Raise("PackageError")
    /\ UNCHANGED <<stored, repoAdds, calls, packages, arguments, mirrors, searchApi, pkgfileTool, pacmanTool,
                   skip, returned, searched, toolRuns, attempts, fetched>>

\* ------------------------------------------------------------------------
\* SysCommandWorker: the state

\* Bounds of the model: the bytes a child writes in all.
MaxLog == 4
MaxYielded == 3

\* exit_code = None (line 86); a wait status is never negative.
NoExitCode == -1

\* The chunks a child writes: a letter, a newline, a VT100 escape sequence.
Chunks == {<<chLowerA>>, <<chNL>>, <<chESC, chLBracket, chLowerM>>}

\* The keys `in` is asked for.
Needles == {<<chLowerA>>, <<chNL>>, <<chLowerA, chNL>>, <<>>}

\* os.waitpid's status word for the exit codes 0 and 1.
ExitStatuses == {0, 256}

VARIABLES
    session,    \* the fields of the SysCommandWorker
    child,      \* the spawned process: its state, and what it wrote to the pty
    lastOp,     \* the last operation on the session, and what it returned
    yielded,    \* every line any iteration has yielded, in order
    caller      \* where the user of the session is: "direct" (driving the
                \* worker itself), "collect" (in create_session's loop),
                \* "left" (after __exit__ returned), "raised" (after it raised),
                \* "returned" (create_session gave the session back),
                \* "failed" (create_session was left by __exit__'s error)

sessionVars == <<session, child, lastOp, yielded, caller>>

\* Single calls: two or three VersionDef objects compared, one spec token
\* parsed, one command line resolved by SysCommandWorker.__init__.
VARIABLES
    operands,   \* the version strings of three VersionDef objects
    compared,   \* what the comparisons of the operands returned
    tokenParts, \* the name, operator and version a spec token is written from
    parsed,     \* what lines 152-178 made of the token
    argv0,      \* cmd[0] as the caller gave it
    searchPath, \* the directories of os.environ['PATH'], in order
    located     \* cmd[0] after __init__, or the error __init__ raised

callVars == <<operands, compared, tokenParts, parsed, argv0, searchPath, located>>

vars == <<syncVars, sessionVars, callVars>>

NoOp == [op |-> "none", key |-> <<>>, result |-> FALSE, pos |-> 0, lines |-> <<>>,
         error |-> "", code |-> 0, message |-> <<>>]

\* No process yet: nothing forked, no descriptor.
NoChild == [state |-> "none", status |-> 0, pending |-> <<>>, written |-> 0,
            writes |-> 0, reaped |-> FALSE, fd_open |-> FALSE]

\* Lines 86-93: the fields after __init__; nothing is spawned yet.
SessionInit ==
    /\ session \in {[exit_code |-> NoExitCode, trace_log |-> <<>>, trace_log_pos |-> 0,
                     child_fd |-> 0, started |-> FALSE, ended |-> FALSE,
                     remove_vt100_escape_codes_from_lines |-> strip] :
                        strip \in BOOLEAN}
    /\ child = NoChild
    /\ lastOp = NoOp
    /\ yielded = <<>>
    /\ caller = "direct"

\* The descriptor pty.fork() hands to the parent.
ChildFd == 3

\* execute (lines 265-307), in the parent: the child is forked, the start
\* is recorded and the descriptor registered.
Executed(s) == [s EXCEPT !.started = TRUE, !.child_fd = ChildFd]

\* make_sure_we_are_executing (lines 190-197).
MakeSureWeAreExecuting(s) == IF ~s.started THEN Executed(s) ELSE s
Spawned(c, s) ==
    IF ~s.started THEN [c EXCEPT !.state = "running", !.fd_open = TRUE] ELSE c

\* ------------------------------------------------------------------------
\* clear_vt100_escape_codes (helpers.py): \x1B\[[?0-9;]*[a-zA-Z]

IsParameterByte(c) == c = chQuest \/ c = chSemi \/ (c >= ch0 /\ c <= ch9)
IsLetter(c) == (c >= 65 /\ c <= 90) \/ (c >= 97 /\ c <= 122)

\* The length of the match of the expression at offset k of data, 0 if none.
RECURSIVE ParametersFrom(_, _)
ParametersFrom(data, k) ==
    IF k + 1 <= Len(data) /\ IsParameterByte(data[k + 1])
    THEN ParametersFrom(data, k + 1) ELSE k
EscapeAt(data, k) ==
    IF k + 2 <= Len(data) /\ data[k + 1] = chESC /\ data[k + 2] = chLBracket
    THEN LET e == ParametersFrom(data, k + 2)
         IN  IF e + 1 <= Len(data) /\ IsLetter(data[e + 1]) THEN e + 1 - k ELSE 0
    ELSE 0

\* re.findall: the matches, left to right, not overlapping.
RECURSIVE FindAllEscapes(_, _)
FindAllEscapes(data, k) ==
    IF k >= Len(data) THEN <<>>
    ELSE IF EscapeAt(data, k) > 0
    THEN <<SubSeq(data, k + 1, k + EscapeAt(data, k))>>
            \o FindAllEscapes(data, k + EscapeAt(data, k))
    ELSE FindAllEscapes(data, k + 1)

\* data.replace(sub, b'')
RECURSIVE Remove(_, _)
Remove(data, sub) ==
    IF sub = <<>> \/ ~Contains(data, sub) THEN data
    ELSE LET k == Find(data, sub)
         IN  SubSeq(data, 1, k) \o Remove(SubSeq(data, k + Len(sub) + 1, Len(data)), sub)

RECURSIVE RemoveEach(_, _)
RemoveEach(data, matches) ==
    IF matches = <<>> THEN data
    ELSE RemoveEach(Remove(data, Head(matches)), Tail(matches))

ClearVt100EscapeCodes(data) == RemoveEach(data, FindAllEscapes(data, 0))

\* ------------------------------------------------------------------------
\* SysCommandWorker: the operations

\* The child writes a chunk to its terminal.
ChildWrites ==
    /\ child.state = "running"
    /\ child.fd_open
    /\ \E chunk \in Chunks :
         /\ child.written + Len(chunk) <= MaxLog
         /\ child' = [child EXCEPT !.pending = @ \o chunk,
                                   !.written = @ + Len(chunk),
                                   !.writes = @ + 1]
    /\ UNCHANGED <<session, lastOp, yielded, caller>>

\* The child exits with some status.
ChildExits ==
    /\ child.state \in {"running", "closed"}
    /\ \E status \in ExitStatuses :
         child' = [child EXCEPT !.state = "exited", !.status = status]
    /\ UNCHANGED <<session, lastOp, yielded, caller>>

ReapedNot(s, c) == s

\* Lines 255-261: the exit status is reaped. A child that was reaped before
\* gives ChildProcessError on both waitpid calls, and the code records 1.
Reaped(s, c) == [s EXCEPT !.exit_code = IF c.reaped THEN 1 ELSE c.status]

\* poll (lines 233-263). The descriptor is readable while the child's
\* output is pending; once the child has exited and nothing is pending, the
\* read raises OSError.
\* A closed descriptor is dropped from the epoll set and reports nothing.
\* pid_exists (helpers.py) asks ps, which lists a process until it is reaped.
PidExists(c) == c.state # "none" /\ ~c.reaped

PollResult(s, c) ==
    IF s.child_fd # 0
    THEN IF c.fd_open /\ c.pending # <<>>
         THEN LET read == [s EXCEPT !.trace_log = @ \o c.pending]
              IN  [session |-> IF read.ended THEN Reaped(read, c) ELSE read,
                   child |-> [c EXCEPT !.pending = <<>>,
                                       !.reaped = @ \/ read.ended],
                   got_output |-> TRUE]
         ELSE IF c.fd_open /\ c.state \in {"closed", "exited"}
         THEN [session |-> Reaped([s EXCEPT !.ended = TRUE], c),
               child |-> [c EXCEPT !.reaped = TRUE],
               got_output |-> FALSE]
         ELSE IF s.ended \/ ~PidExists(c)
         THEN [session |-> Reaped([s EXCEPT !.ended = TRUE], c),
               child |-> [c EXCEPT !.reaped = TRUE],
               got_output |-> FALSE]
         ELSE [session |-> s, child |-> c, got_output |-> FALSE]
    ELSE [session |-> s, child |-> c, got_output |-> FALSE]

BlocksNever(s, c) == FALSE

\* Line 256: os.waitpid(pid, 0) does not return while the child lives. A
\* child that closed its terminal and runs on keeps poll() inside waitpid.
Blocks(s, c) == s.child_fd # 0 /\ c.fd_open /\ c.state = "closed" /\ c.pending = <<>>

Poll ==
    LET r == PollResult(MakeSureWeAreExecuting(session), Spawned(child, session))
    IN  /\ caller # "collect"
        /\ ~Blocks(session, child)
        /\ session' = r.session
        /\ child' = r.child
        /\ lastOp' = [NoOp EXCEPT !.op = "poll", !.result = r.got_output]
        /\ UNCHANGED <<yielded, caller>>

\* __contains__ (lines 95-107): the cursor after `key in session`.
ContainsKey(s, key) == Contains(PySliceFrom(s.trace_log, s.trace_log_pos), key)
CursorAfterContains(s, key) ==
    IF ContainsKey(s, key)
    THEN s.trace_log_pos
            + Find(PySliceFrom(s.trace_log, s.trace_log_pos), key) + Len(key)
    ELSE s.trace_log_pos

ContainsOp ==
    /\ \E key \in Needles :
         /\ session' = [session EXCEPT !.trace_log_pos = CursorAfterContains(session, key)]
         /\ lastOp' = [NoOp EXCEPT !.op = "contains", !.key = key,
                                   !.result = ContainsKey(session, key),
                                   !.pos = session.trace_log_pos]
    /\ UNCHANGED <<child, yielded, caller>>

\* __iter__ (lines 109-121), iterated to its end: the lines it yields.
RECURSIVE YieldEach(_, _)
YieldEach(lines, strip) ==
    IF lines = <<>> THEN <<>>
    ELSE LET line == Head(lines)
         IN  (IF line # <<>>
              THEN <<(IF strip THEN ClearVt100EscapeCodes(line) ELSE line) \o <<chNL>>>>
              ELSE <<>>)
             \o YieldEach(Tail(lines), strip)

YieldedLines(s) ==
    YieldEach(Split(PySlice(s.trace_log, s.trace_log_pos,
                            RFind(s.trace_log, <<chNL>>)), <<chNL>>),
              s.remove_vt100_escape_codes_from_lines)

\* Line 121: the cursor once the generator is exhausted.
CursorAfterIteration(s) == RFind(s.trace_log, <<chNL>>)

Iterate ==
    /\ Len(yielded) + Len(YieldedLines(session)) <= MaxYielded
    /\ session' = [session EXCEPT !.trace_log_pos = CursorAfterIteration(session)]
    /\ lastOp' = [NoOp EXCEPT !.op = "iter", !.lines = YieldedLines(session),
                              !.pos = session.trace_log_pos]
    /\ yielded' = yielded \o YieldedLines(session)
    /\ UNCHANGED <<child, caller>>

\* seek (lines 207-214)
CursorAfterSeek(s, pos) ==
    LET low == IF pos < 0 THEN 0 ELSE pos
    IN  IF low > Len(s.trace_log) THEN Len(s.trace_log) ELSE low

Seek ==
    /\ \E pos \in -1..(MaxLog + 1) :
         /\ session' = [MakeSureWeAreExecuting(session) EXCEPT
                            !.trace_log_pos = CursorAfterSeek(session, pos)]
         /\ lastOp' = [NoOp EXCEPT !.op = "seek"]
    /\ child' = Spawned(child, session)
    /\ UNCHANGED <<yielded, caller>>

\* tell (lines 199-205)
Tell ==
    /\ session' = MakeSureWeAreExecuting(session)
    /\ child' = Spawned(child, session)
    /\ lastOp' = [NoOp EXCEPT !.op = "tell", !.pos = session.trace_log_pos]
    /\ UNCHANGED <<yielded, caller>>

\* ------------------------------------------------------------------------
\* SysCommandWorker: scoped use, is_alive, and SysCommand.create_session

\* Line 163: the length of the excerpt of output in the error message.
MessageLimit == 100

\* Bound of the model: the writes of a child whose output is not plain text.
MaxWrites == 2

\* A byte that no UTF-8 text holds, and the two bytes of one character.
chInvalid == 255
chLead == 195
chContinuation == 169

\* What such a child writes: a letter, a long run of letters, a two-byte
\* character, a byte that is not UTF-8.
RawChunks ==
    {<<chLowerA>>, [k \in 1..MessageLimit |-> chLowerA],
     <<chLead, chContinuation>>, <<chInvalid>>}

\* bytes.decode('UTF-8') (line 314) for one- and two-byte sequences: the
\* characters, or a failure (UnicodeDecodeError).
Utf8Decode(bytes) ==
    LET n == Len(bytes)
        IsContinuation(i) == bytes[i] >= 128 /\ bytes[i] <= 191
        IsLead(i) == bytes[i] >= 194 /\ bytes[i] <= 223
        WellFormed(i) ==
            \/ bytes[i] < 128
            \/ IsLead(i) /\ i < n /\ IsContinuation(i + 1)
            \/ IsContinuation(i) /\ i > 1 /\ IsLead(i - 1)
        starts == SelectSeq([i \in 1..n |-> i], LAMBDA i : ~IsContinuation(i))
        CharAt(i) == IF bytes[i] < 128 THEN bytes[i]
                     ELSE (bytes[i] - 192) * 64 + (bytes[i + 1] - 128)
    IN  IF \A i \in 1..n : WellFormed(i)
        THEN [ok |-> TRUE, chars |-> [k \in 1..Len(starts) |-> CharAt(starts[k])]]
        ELSE [ok |-> FALSE, chars |-> <<>>]

\* Lines 146-151: the descriptor is closed, whatever the close itself does.
ClosedNot(c, s) == c
Closed(c, s) ==
    IF s.child_fd # 0 THEN [c EXCEPT !.fd_open = FALSE, !.pending = <<>>] ELSE c

\* Lines 162-163: what __exit__ raises. The message is built, decoding the
\* log, before SysCallError is constructed.
ExitError(s) ==
    IF s.exit_code # 0
    THEN IF Utf8Decode(s.trace_log).ok THEN "SysCallError" ELSE "UnicodeDecodeError"
    ELSE ""

ExitResult(s, exc) ==
    IF ExitError(s) = "SysCallError"
    THEN [NoOp EXCEPT !.op = "exit", !.result = exc, !.error = "SysCallError",
                      !.code = s.exit_code,
                      !.message = PySlice(Utf8Decode(s.trace_log).chars, 0, MessageLimit)]
    ELSE [NoOp EXCEPT !.op = "exit", !.result = exc, !.error = ExitError(s)]

\* __exit__ (lines 136-163), at the end of a `with` block that the body
\* left normally or by an exception.
ScopedExit ==
    /\ caller = "direct"
    /\ \E exc \in BOOLEAN : lastOp' = ExitResult(session, exc)
    /\ child' = Closed(child, session)
    /\ caller' = IF ExitError(session) = "" THEN "left" ELSE "raised"
    /\ UNCHANGED <<session, yielded>>

\* is_alive (lines 165-174)
IsAlive ==
    LET r == PollResult(MakeSureWeAreExecuting(session), Spawned(child, session))
    IN  /\ caller # "collect"
        /\ ~Blocks(session, child)
        /\ session' = r.session
        /\ child' = r.child
        /\ lastOp' = [NoOp EXCEPT !.op = "is_alive",
                                  !.result = r.session.started /\ ~r.session.ended]
        /\ UNCHANGED <<yielded, caller>>

\* create_session (lines 426-427): one turn of `while ended is None: poll()`.
WaitPoll ==
    LET r == PollResult(MakeSureWeAreExecuting(session), Spawned(child, session))
    IN  /\ caller = "collect"
        /\ ~session.ended
        /\ ~Blocks(session, child)
        /\ session' = r.session
        /\ child' = r.child
        /\ lastOp' = [NoOp EXCEPT !.op = "poll", !.result = r.got_output]
        /\ UNCHANGED <<yielded, caller>>

\* create_session (lines 422-433): the loop is left and the `with` block
\* with it; the session is returned unless __exit__ raises.
WaitDone ==
    /\ caller = "collect"
    /\ session.ended
    /\ lastOp' = ExitResult(session, FALSE)
    /\ child' = Closed(child, session)
    /\ caller' = IF ExitError(session) = "" THEN "returned" ELSE "failed"
    /\ UNCHANGED <<session, yielded>>

\* The child closes its terminal and runs on.
ChildClosesOutput ==
    /\ child.state = "running"
    /\ child' = [child EXCEPT !.state = "closed"]
    /\ UNCHANGED <<session, lastOp, yielded, caller>>

\* The child writes output that need not be text.
ChildWritesRaw ==
    /\ child.state = "running"
    /\ child.fd_open
    /\ child.writes < MaxWrites
    /\ \E chunk \in RawChunks :
         child' = [child EXCEPT !.pending = @ \o chunk,
                                !.written = @ + Len(chunk),
                                !.writes = @ + 1]
    /\ UNCHANGED <<session, lastOp, yielded, caller>>

\* ------------------------------------------------------------------------
\* Single calls: VersionDef comparisons, spec parsing, locate_binary

\* Bounds of the model: the directories of the search path.
MaxDirs == 2

chSlash == 47

\* Version strings compared: 1.2.0.1 has a fourth component, 2 only one.
V1201 == V120 \o <<chDot, ch1>>
V2 == <<ch2>>
VersionStrings == {V119, V120, V130, V101, V1201, V2}

Pairs == (1..3) \X (1..3)
NoComparison == [done |-> FALSE, eq |-> [p \in Pairs |-> FALSE],
                 lt |-> [p \in Pairs |-> "None"]]

\* x == y and x < y on every two of the three VersionDef objects.
Compare ==
    /\ ~compared.done
    /\ compared' = [done |-> TRUE,
                    eq |-> [p \in Pairs |-> VersionEq(VersionDef(operands[p[1]]),
                                                      VersionDef(operands[p[2]]))],
                    lt |-> [p \in Pairs |-> VersionLt(VersionDef(operands[p[1]]),
                                                      VersionDef(operands[p[2]]))]]
    /\ UNCHANGED <<operands, tokenParts, parsed, argv0, searchPath, located>>

\* Spec tokens as a user or a package's depends list writes them: a name,
\* or a name, an operator and a version or a range of two versions.
Operators == {OpGE, OpLE, OpGT, OpLT, OpEQ}
TokenVersions == {V119, V120, V101, V119 \o <<chDash>> \o V120}
BareToken(n) == [name |-> n, op |-> <<>>, version |-> <<>>]
TokenInputs ==
    {BareToken(n) : n \in Names}
        \cup [name : Names, op : Operators, version : TokenVersions]
TokenOf(parts) == parts.name \o parts.op \o parts.version

Unparsed == [done |-> FALSE, con |-> ParseSpec(<<>>)]

\* Lines 152-178 on one token.
ParseToken ==
    /\ ~parsed.done
    /\ parsed' = [done |-> TRUE, con |-> ParseSpec(TokenOf(tokenParts))]
    /\ UNCHANGED <<operands, compared, tokenParts, argv0, searchPath, located>>

\* The file names looked for, and the directories of PATH: the files a
\* directory holds itself and those only a subfolder of it holds. The k-th
\* directory of PATH is Roots[k].
BinNames == {NameA, NameB}
Roots == <<<<chSlash, chLowerB>>, <<chSlash, chLowerC>>>>
Directories == [files : SUBSET BinNames, nested : SUBSET BinNames]

\* cmd[0]: /a, ./a, ../a, a, b.
Argv0s == {<<chSlash>> \o NameA, <<chDot, chSlash>> \o NameA,
           <<chDot, chDot, chSlash>> \o NameA, NameA, NameB}

NotConstructed == [state |-> "none", path |-> <<>>]

\* locate_binary takes the last directory that holds the name.
LocateBinaryLast(name, path) ==
    LET hits == {k \in 1..Len(path) : name \in path[k].files}
    IN  IF hits = {} THEN [state |-> "RequirementError", path |-> <<>>]
        ELSE [state |-> "ok", path |-> Roots[Max(hits)] \o <<chSlash>> \o name]

\* locate_binary (helpers.py:8-16): the directories of PATH in order, of
\* each only the files of its first os.walk entry; RequirementError after
\* the last.
LocateBinary(name, path) ==
    LET hits == {k \in 1..Len(path) : name \in path[k].files}
    IN  IF hits = {} THEN [state |-> "RequirementError", path |-> <<>>]
        ELSE [state |-> "ok", path |-> Roots[Min(hits)] \o <<chSlash>> \o name]

\* Line 74: cmd[0][0] != '/' and cmd[0][:2] != './'.
NeedsLookup(name) ==
    name[1] # chSlash /\ PySlice(name, 0, 2) # <<chDot, chSlash>>

\* SysCommandWorker.__init__ (lines 69-93): cmd[0] is resolved, then the
\* fields are set; nothing is forked here.
Construct ==
    /\ located.state = "none"
    /\ located' = IF NeedsLookup(argv0) THEN LocateBinary(argv0, searchPath)
                  ELSE [state |-> "ok", path |-> argv0]
    /\ UNCHANGED <<operands, compared, tokenParts, parsed, argv0, searchPath>>

\* poll() on a constructed worker; the first one forks the child.
PollWorker ==
    /\ located.state = "ok"
    /\ Poll
    /\ UNCHANGED callVars

\* No single call in progress, and a worker constructed for /a.
CallIdle ==
    /\ operands = [k \in 1..3 |-> V2]
    /\ compared = NoComparison
    /\ tokenParts = BareToken(NameA)
    /\ parsed = Unparsed
    /\ argv0 = <<chSlash>> \o NameA
    /\ searchPath = <<>>
    /\ located = [state |-> "ok", path |-> <<chSlash>> \o NameA]

\* ------------------------------------------------------------------------
\* The specifications

\* No session in use, for the runs of the resolver.
SessionIdle ==
    /\ session = [exit_code |-> NoExitCode, trace_log |-> <<>>, trace_log_pos |-> 0,
                  child_fd |-> 0, started |-> FALSE, ended |-> FALSE,
                  remove_vt100_escape_codes_from_lines |-> TRUE]
    /\ child = NoChild
    /\ lastOp = NoOp
    /\ yielded = <<>>
    /\ caller = "direct"

\* No resolution in progress, for the runs of a session.
SyncIdle ==
    /\ packages = <<>>
    /\ arguments = [r \in Repos |-> TRUE]
    /\ mirrors = <<>>
    /\ searchApi = [n \in Names |-> NoInfo]
    /\ pkgfileTool = [n \in Names |-> NoRun]
    /\ pacmanTool = [n \in Names |-> NoRun]
    /\ stack = <<>>
    /\ skip = <<>>
    /\ outcome = "returned"
    /\ returned = {}
    /\ searched = <<>>
    /\ toolRuns = <<>>
    /\ attempts = <<>>
    /\ fetched = <<>>
    /\ repoAdds = <<>>
    /\ calls = 0
    /\ stored = {}

\* One top-level call of sync_packages, as __main__ makes it.
Init == SyncInit /\ SessionIdle /\ CallIdle
Next ==
    \/ SetupDestination /\ UNCHANGED <<sessionVars, callVars>>
    \/ SyncReturn /\ UNCHANGED <<sessionVars, callVars>>
    \/ SkipVisited /\ UNCHANGED <<sessionVars, callVars>>
    \/ FindPackage /\ UNCHANGED <<sessionVars, callVars>>
    \/ Pkgfile /\ UNCHANGED <<sessionVars, callVars>>
    \/ AfterPkgfile /\ UNCHANGED <<sessionVars, callVars>>
    \/ Pacman /\ UNCHANGED <<sessionVars, callVars>>
    \/ AfterPacman /\ UNCHANGED <<sessionVars, callVars>>
    \/ CheckPackage /\ UNCHANGED <<sessionVars, callVars>>
    \/ TryMirror /\ UNCHANGED <<sessionVars, callVars>>
    \/ MirrorsExhausted /\ UNCHANGED <<sessionVars, callVars>>
Spec == Init /\ [][Next]_vars

\* A process that calls sync_packages again after it returned, for short
\* package and mirror lists.
RepeatInit == Init /\ Len(packages) <= 1 /\ Len(mirrors) <= 1
RepeatNext ==
    \/ Next
    \/ SyncAgain /\ UNCHANGED <<sessionVars, callVars>>
RepeatSpec == RepeatInit /\ [][RepeatNext]_vars

\* One SysCommandWorker, driven by its caller, and its child process.
SessionStart == SessionInit /\ SyncIdle /\ CallIdle
SessionStep ==
    \/ ChildWrites /\ UNCHANGED <<syncVars, callVars>>
    \/ ChildExits /\ UNCHANGED <<syncVars, callVars>>
    \/ Poll /\ UNCHANGED <<syncVars, callVars>>
    \/ ContainsOp /\ UNCHANGED <<syncVars, callVars>>
    \/ Iterate /\ UNCHANGED <<syncVars, callVars>>
    \/ Seek /\ UNCHANGED <<syncVars, callVars>>
    \/ Tell /\ UNCHANGED <<syncVars, callVars>>
SessionSpec == SessionStart /\ [][SessionStep]_vars

\* One top-level call into a destination that holds artifacts of an
\* earlier run, for short package and mirror lists.
CachedInit ==
    /\ packages \in SeqsUpTo(SpecTokens, 1)
    /\ arguments \in ArgumentChoices
    /\ mirrors \in SeqsUpTo(Schemes, 1)
    /\ searchApi = [n \in Names |-> NoInfo]
    /\ pkgfileTool = [n \in Names |-> NoRun]
    /\ pacmanTool = [n \in Names |-> NoRun]
    /\ stack = <<>>
    /\ skip = <<>>
    /\ outcome = "setup"
    /\ returned = {}
    /\ searched = <<>>
    /\ toolRuns = <<>>
    /\ attempts = <<>>
    /\ fetched = <<>>
    /\ repoAdds = <<>>
    /\ calls = 0
    /\ stored \in SUBSET ListedNames
    /\ SessionIdle
    /\ CallIdle
CachedSpec == CachedInit /\ [][Next]_vars

\* A SysCommandWorker whose caller polls, tests containment and iterates,
\* and never seeks.
ReadStep ==
    \/ ChildWrites /\ UNCHANGED <<syncVars, callVars>>
    \/ ChildExits /\ UNCHANGED <<syncVars, callVars>>
    \/ Poll /\ UNCHANGED <<syncVars, callVars>>
    \/ ContainsOp /\ UNCHANGED <<syncVars, callVars>>
    \/ Iterate /\ UNCHANGED <<syncVars, callVars>>
ReadSpec == SessionStart /\ [][ReadStep]_vars

\* One SysCommandWorker used in a `with` block, by its caller directly or
\* by create_session, and its child process.
ScopeStart ==
    /\ session = [exit_code |-> NoExitCode, trace_log |-> <<>>, trace_log_pos |-> 0,
                  child_fd |-> 0, started |-> FALSE, ended |-> FALSE,
                  remove_vt100_escape_codes_from_lines |-> TRUE]
    /\ child = NoChild
    /\ lastOp = NoOp
    /\ yielded = <<>>
    /\ caller \in {"direct", "collect"}
    /\ SyncIdle
    /\ CallIdle
ScopeStep ==
    \/ ChildWritesRaw /\ UNCHANGED <<syncVars, callVars>>
    \/ ChildClosesOutput /\ UNCHANGED <<syncVars, callVars>>
    \/ ChildExits /\ UNCHANGED <<syncVars, callVars>>
    \/ Poll /\ UNCHANGED <<syncVars, callVars>>
    \/ IsAlive /\ UNCHANGED <<syncVars, callVars>>
    \/ ScopedExit /\ UNCHANGED <<syncVars, callVars>>
    \/ WaitPoll /\ UNCHANGED <<syncVars, callVars>>
    \/ WaitDone /\ UNCHANGED <<syncVars, callVars>>
ScopeSpec == ScopeStart /\ [][ScopeStep]_vars

\* The caller's loop keeps running; nothing is assumed about the child.
ScopeFairSpec ==
    /\ ScopeSpec
    /\ WF_vars(WaitPoll /\ UNCHANGED <<syncVars, callVars>>)
    /\ WF_vars(WaitDone /\ UNCHANGED <<syncVars, callVars>>)

\* Three VersionDef objects and the comparisons between them.
CompareInit ==
    /\ operands \in [1..3 -> VersionStrings]
    /\ compared = NoComparison
    /\ tokenParts = BareToken(NameA)
    /\ parsed = Unparsed
    /\ argv0 = <<chSlash>> \o NameA
    /\ searchPath = <<>>
    /\ located = [state |-> "ok", path |-> <<chSlash>> \o NameA]
    /\ SyncIdle
    /\ SessionIdle
CompareNext == Compare /\ UNCHANGED <<syncVars, sessionVars>>
CompareSpec == CompareInit /\ [][CompareNext]_vars

\* One spec token and its parsing.
ParsingInit ==
    /\ operands = [k \in 1..3 |-> V2]
    /\ compared = NoComparison
    /\ tokenParts \in TokenInputs
    /\ parsed = Unparsed
    /\ argv0 = <<chSlash>> \o NameA
    /\ searchPath = <<>>
    /\ located = [state |-> "ok", path |-> <<chSlash>> \o NameA]
    /\ SyncIdle
    /\ SessionIdle
ParsingNext == ParseToken /\ UNCHANGED <<syncVars, sessionVars>>
ParsingSpec == ParsingInit /\ [][ParsingNext]_vars

\* One SysCommandWorker from its construction to the end of its child.
LocateInit ==
    /\ operands = [k \in 1..3 |-> V2]
    /\ compared = NoComparison
    /\ tokenParts = BareToken(NameA)
    /\ parsed = Unparsed
    /\ argv0 \in Argv0s
    /\ searchPath \in SeqsUpTo(Directories, MaxDirs)
    /\ located = NotConstructed
    /\ SyncIdle
    /\ SessionIdle
LocateNext ==
    \/ Construct /\ UNCHANGED <<syncVars, sessionVars>>
    \/ PollWorker /\ UNCHANGED syncVars
    \/ (located.state = "ok" /\ ChildExits) /\ UNCHANGED <<syncVars, callVars>>
LocateSpec == LocateInit /\ [][LocateNext]_vars

\* ------------------------------------------------------------------------
\* Properties of sync_packages

\* How often an artifact of package n was written, and n was searched for.
Fetches(n) == Cardinality({k \in 1..Len(fetched) : fetched[k].pkgname = n})
Searches(n) == Cardinality({k \in 1..Len(searched) : searched[k] = n})

\* The names package n depends on, by the answers of the search endpoint.
DependsOn(n) ==
    IF searchApi[n].kind = "pkg"
    THEN {ParseSpec(searchApi[n].depends[k]).package :
            k \in 1..Len(searchApi[n].depends)}
    ELSE {}

RECURSIVE ReachableIn(_, _)
ReachableIn(S, steps) ==
    IF steps = 0 THEN S
    ELSE ReachableIn(S \cup UNION {DependsOn(n) : n \in S \cap Names}, steps - 1)

\* n lies on a cycle of the dependency graph.
OnCycle(n) == n \in ReachableIn(DependsOn(n), Cardinality(Names))

\* C1: within one sync run no package is downloaded more than once, and
\* resolving [A, A] for a dependency-free package A searches for A once and
\* downloads A once.
C1_DownloadedAtMostOnce ==
    /\ \A n \in Names : Fetches(n) <= 1
    /\ \A n \in Names :
         (/\ outcome = "returned"
          /\ Len(packages) = 2
          /\ ParseSpec(packages[1]).package = n
          /\ ParseSpec(packages[2]).package = n
          /\ searchApi[n].kind = "pkg"
          /\ searchApi[n].depends = <<>>)
         => Searches(n) = 1 /\ Fetches(n) = 1

\* The visited list itself keeps a name from being looked up and fetched
\* again under that name.
FetchedOncePerSpecName ==
    \A n \in Names : Cardinality({k \in 1..Len(fetched) : fetched[k].package = n}) <= 1

\* C2: sync ends on every dependency graph, cyclic ones included, without
\* exhausting the call depth on the dependencies alone, and a package on a
\* dependency cycle is fetched at most once.
C2_CycleFetchedOnce ==
    /\ outcome = "RecursionError" => toolRuns # <<>>
    /\ \A n \in Names : OnCycle(n) => Fetches(n) <= 1

\* What the spec says a constraint means: the numeric, lexicographic order
\* of the dot-separated components.
RECURSIVE ToNumber(_)
ToNumber(digits) ==
    IF digits = <<>> THEN 0
    ELSE 10 * ToNumber(SubSeq(digits, 1, Len(digits) - 1))
            + (digits[Len(digits)] - ch0)

Triplet(version_string) ==
    LET parts == Split(version_string, <<chDot>>)
    IN  [k \in 1..Len(parts) |-> ToNumber(parts[k])]

RECURSIVE TripletLess(_, _)
TripletLess(a, b) ==
    IF a = <<>> THEN b # <<>>
    ELSE IF b = <<>> THEN FALSE
    ELSE IF Head(a) # Head(b) THEN Head(a) < Head(b)
    ELSE TripletLess(Tail(a), Tail(b))

Satisfies(con, pkgver) ==
    LET v == Triplet(pkgver)
        t == Triplet(con.target_version)
        range == Split1(con.target_version, <<chDash>>)
    IN  IF con.ge /\ con.le
        THEN ~TripletLess(v, Triplet(range[1])) /\ ~TripletLess(Triplet(range[2]), v)
        ELSE IF con.ge THEN ~TripletLess(v, t)
        ELSE IF con.gt THEN TripletLess(t, v)
        ELSE IF con.le THEN ~TripletLess(t, v)
        ELSE IF con.lt THEN TripletLess(v, t)
        ELSE IF con.specific # None THEN v = t
        ELSE TRUE

\* C3: with an ordering constraint on the spec, a resolved version that
\* violates it ends the run with PackageError, and one that satisfies it is
\* accepted (the package goes on to the mirrors).
C3_ConstraintEnforced ==
    [][(/\ Running
        /\ Top.pc = "check"
        /\ Top.package_info # NoInfo
        /\ Top.con.gt \/ Top.con.ge \/ Top.con.lt \/ Top.con.le
        /\ ~RepoBlocked(Top.package_info.repo))
       => ((outcome' = "PackageError")
              <=> ~Satisfies(Top.con, Top.package_info.pkgver))]_vars

\* C4: no mirror is tried and nothing is written for a package of a disabled
\* repository, and the check of such a package ends the run with
\* PackageError.
C4_DisabledRepoNeverFetched ==
    /\ [](/\ \A k \in 1..Len(attempts) : arguments[attempts[k].repo]
          /\ \A k \in 1..Len(fetched) : arguments[fetched[k].repo])
    /\ [][(/\ Running
           /\ Top.pc = "check"
           /\ Top.package_info # NoInfo
           /\ ~arguments[Top.package_info.repo])
          => (outcome' = "PackageError" /\ attempts' = attempts
                /\ fetched' = fetched)]_vars

\* A package of a disabled repository was found, and the run ended with
\* PackageError before any mirror was tried.
C4_Witness ==
    /\ outcome = "PackageError"
    /\ packages = <<NameB>>
    /\ searchApi[NameB].kind = "pkg"
    /\ ~arguments[searchApi[NameB].repo]
    /\ attempts = <<>>

\* C5: a failed attempt at a mirror that is not the last one is followed by
\* an attempt at the next mirror: the run goes on.
C5_MirrorFailureRecovered ==
    \A k \in 1..Len(attempts) :
        (attempts[k].result # "True" /\ attempts[k].mirror < Len(mirrors))
        => \/ /\ k < Len(attempts)
              /\ attempts[k + 1].package = attempts[k].package
              /\ attempts[k + 1].mirror = attempts[k].mirror + 1
           \/ /\ k = Len(attempts)
              /\ Running
              /\ Top.pc = "mirror"
              /\ Top.m = attempts[k].mirror + 1

\* C6: the mirrors are tried in list order, none is tried after a success,
\* and when every mirror was tried without success (or there is none) the
\* run ends with PackageError.
C6_MirrorOrder ==
    /\ \A k \in 1..Len(attempts) :
         \/ attempts[k].mirror = 1
         \/ /\ k > 1
            /\ attempts[k - 1].package = attempts[k].package
            /\ attempts[k - 1].mirror = attempts[k].mirror - 1
            /\ attempts[k - 1].result # "True"
    /\ (attempts # <<>>
          /\ attempts[Len(attempts)].result # "True"
          /\ attempts[Len(attempts)].mirror = Len(mirrors))
         => outcome = "PackageError"

\* The lookup tool ran for n and printed no line of an enabled repository.
RanWithoutCandidate(tool, n) ==
    tool[n] # NoRun /\ tool[n].exit = 0 /\ FirstEnabled(tool[n].lines) = 0
RanAndFailed(tool, n) == tool[n] # NoRun /\ tool[n].exit # 0

\* The primary lookup of n failed and no fallback gave a candidate.
FallbacksExhausted(n) ==
    /\ searchApi[n].kind = "none"
    /\ \/ RanWithoutCandidate(pkgfileTool, n)
       \/ /\ RanAndFailed(pkgfileTool, n)
          /\ RanWithoutCandidate(pacmanTool, n) \/ RanAndFailed(pacmanTool, n)

\* C7: when the primary lookup of a spec fails and no fallback gives a
\* candidate of an enabled repository, the run ends with PackageError and
\* nothing is downloaded for that spec.
C7_FallbacksExhaustedFails ==
    \A n \in Names :
        FallbacksExhausted(n)
        => /\ outcome \in {"running", "PackageError"}
           /\ \A k \in 1..Len(fetched) : fetched[k].package # n

\* C8: pkgfile is asked first, and pacman is asked for a name exactly when
\* pkgfile gave no candidate of an enabled repository for it, whether it
\* failed or printed no usable line.
C8_FallbackOrder ==
    \A n \in Names :
        LET ranPacman == \E k \in 1..Len(toolRuns) :
                            toolRuns[k] = [tool |-> "pacman", name |-> n]
            pacmanNext == \E d \in 1..Len(stack) :
                            stack[d].pc = "pacman" /\ stack[d].package = n
        IN  /\ (RanWithoutCandidate(pkgfileTool, n) \/ RanAndFailed(pkgfileTool, n))
                 => (ranPacman \/ pacmanNext)
            /\ ranPacman
                 => (RanWithoutCandidate(pkgfileTool, n) \/ RanAndFailed(pkgfileTool, n))

\* The repositories an artifact was written into.
FetchedRepos == {fetched[k].repo : k \in 1..Len(fetched)}

\* update_repo_db's command for repository r: repo-add with its options on
\* an artifact of r.
Rebuilds(r) == {k \in 1..Len(repoAdds) : repoAdds[k].db = r /\ repoAdds[k].by = "update_repo_db"}

\* C16: when the run has completed, the database of every repository in the
\* returned list has been rebuilt, after the last artifact was fetched.
C16_RebuildAfterSync ==
    outcome = "returned" => \A r \in returned : Rebuilds(r) # {}

\* C17: a run that syncs one dependency-free package of repository R from a
\* reachable mirror writes the artifact into R and runs repo-add on R's
\* database exactly once.
C17_OneRepoAddPerRun ==
    \A n \in ListedNames :
        (/\ outcome = "returned"
         /\ calls = 1
         /\ packages = <<n>>
         /\ searchApi[n].kind = "pkg"
         /\ searchApi[n].depends = <<>>)
        => /\ Len(fetched) = 1
           /\ fetched[1].pkgname = n
           /\ fetched[1].repo = searchApi[n].repo
           /\ Cardinality({k \in 1..Len(repoAdds) :
                             repoAdds[k].db = searchApi[n].repo}) = 1

\* C18: the list a top-level call returns holds exactly the repositories an
\* artifact was downloaded into during the call.
C18_ReturnedIsTouched ==
    (outcome = "returned" /\ calls = 1) => returned = FetchedRepos

\* C19: every top-level call that is given no `skip` starts with an empty one.
C19_FreshVisitedSet ==
    [][calls' # calls => skip' = <<>>]_vars

\* The step runs `pacman -Ss` for a spec that pkgfile failed on, and no line
\* of its output names an enabled repository: the fallbacks are exhausted.
PacmanFindsNothing ==
    /\ Running
    /\ Top.pc = "pacman"
    /\ Len(toolRuns') > Len(toolRuns)
    /\ pacmanTool'[Top.package].exit = 0
    /\ FirstEnabled(pacmanTool'[Top.package].lines) = 0

\* A spec is about to fail with PackageError: a version constraint is not
\* met, the repository is disabled, or no mirror is left.
AboutToFail ==
    /\ Running
    /\ \/ /\ Top.pc = "check"
          /\ Top.package_info # NoInfo
          /\ \/ ConstraintRaises(Top.con, Top.package_info.pkgver)
             \/ arguments[Top.package_info.repo] = FALSE
       \/ /\ Top.pc = "mirror"
          /\ Top.m > Len(mirrors)

\* C20: a PackageError raised for one spec, at any depth, ends the whole
\* run: it is the run's outcome, nothing is searched or fetched afterwards,
\* and what was fetched before stays.
C20_PackageErrorAborts ==
    /\ [](outcome = "PackageError" => stack = <<>>)
    /\ [][(AboutToFail \/ PacmanFindsNothing)
          => (outcome' = "PackageError" /\ stack' = <<>> /\ fetched' = fetched)]_vars
    /\ [][outcome = "PackageError"
          => (searched' = searched /\ attempts' = attempts /\ fetched' = fetched)]_vars

\* The second spec failed with PackageError after the first was fetched:
\* the run ended there and the first artifact is still in place.
C20_Witness ==
    /\ outcome = "PackageError"
    /\ Len(packages) = 2
    /\ Len(fetched) = 1
    /\ fetched[1].package = ParseSpec(packages[1]).package
    /\ searched = <<ParseSpec(packages[1]).package, ParseSpec(packages[2]).package>>

\* C21: a spec whose name the search does not list and the group probe
\* reports as a group is skipped without an error: nothing is fetched for
\* it, no lookup tool is run for it, it is not marked visited, and the run
\* does not end on it.
C21_GroupSkipped ==
    \A n \in Names :
        searchApi[n].kind = "group"
        => /\ \A k \in 1..Len(fetched) : fetched[k].package # n
           /\ \A k \in 1..Len(toolRuns) : toolRuns[k].name # n
           /\ n \notin Range(skip)
           /\ outcome # "IsGroup"

\* The candidate the fallback chain substitutes for n: the first line of
\* an enabled repository that pkgfile printed or, where pkgfile failed, that
\* pacman printed; <<>> when there is none.
Substitute(n) ==
    LET viaPkgfile == pkgfileTool[n]
        viaPacman == pacmanTool[n]
    IN  IF viaPkgfile # NoRun /\ viaPkgfile.exit = 0
               /\ FirstEnabled(viaPkgfile.lines) # 0
        THEN viaPkgfile.lines[FirstEnabled(viaPkgfile.lines)].name
        ELSE IF RanAndFailed(pkgfileTool, n) /\ viaPacman # NoRun
                  /\ viaPacman.exit = 0 /\ FirstEnabled(viaPacman.lines) # 0
        THEN viaPacman.lines[FirstEnabled(viaPacman.lines)].name
        ELSE <<>>

\* The version without its package release: 1.0 of 1.0-1.
Upstream(pkgver) == Split1(pkgver, <<chDash>>)[1]

\* The spec token carries a constraint, its name is resolved through the
\* fallback chain, and the substitute's version violates the constraint.
SubstituteViolates(token) ==
    LET con == ParseSpec(token)
        cand == Substitute(con.package)
    IN  /\ Truthy(con.target_version)
        /\ searchApi[con.package].kind = "none"
        /\ cand # <<>>
        /\ searchApi[cand].kind = "pkg"
        /\ ~Satisfies(con, Upstream(searchApi[cand].pkgver))

\* C25: a spec's version constraint is enforced on the substitute the
\* fallback chain resolves it to: with a substitute whose version violates
\* the constraint the run does not return normally.
C25_ConstraintOnSubstitute ==
    \A k \in 1..Len(packages) :
        SubstituteViolates(packages[k]) => outcome # "returned"

\* C29: no mirror is tried for a package whose artifact file is already at
\* its destination.
C29_CachedNotDownloaded ==
    [][attempts' # attempts => Top.package_info.pkgname \notin stored]_vars

\* C30: every name in the visited list is the name of a package whose
\* artifact was downloaded earlier in the run.
C30_VisitedWasDownloaded ==
    \A k \in 1..Len(skip) : \E j \in 1..Len(fetched) : fetched[j].pkgname = skip[k]

\* ------------------------------------------------------------------------
\* Properties of spec parsing

\* The operator a parsed constraint stands for: `=` binds either the exact
\* version or, for a range, both inclusive bounds.
RecognisedOp(con) ==
    IF con.ge /\ con.le THEN OpEQ
    ELSE IF con.ge THEN OpGE
    ELSE IF con.gt THEN OpGT
    ELSE IF con.le THEN OpLE
    ELSE IF con.lt THEN OpLT
    ELSE IF con.specific # None THEN OpEQ
    ELSE <<>>

\* C26: a token name+op+version is parsed into the text before the
\* operator, the operator op itself and the text after it; a token without
\* an operator is the name, with no constraint.
C26_LongestOperatorFirst ==
    parsed.done
    => /\ parsed.con.package = tokenParts.name
       /\ RecognisedOp(parsed.con) = tokenParts.op
       /\ IF tokenParts.op = <<>>
          THEN parsed.con.target_version = None
          ELSE parsed.con.target_version = tokenParts.version

\* a>=1.2.0 was parsed as a, >=, 1.2.0.
C26_Witness ==
    /\ parsed.done
    /\ tokenParts = [name |-> NameA, op |-> OpGE, version |-> V120]
    /\ parsed.con.package = NameA
    /\ parsed.con.ge
    /\ ~parsed.con.gt
    /\ parsed.con.target_version = V120

\* ------------------------------------------------------------------------
\* Properties of VersionDef

Swap(p) == <<p[2], p[1]>>

\* C22: a < b is True or False for any two triplets, never None, and of two
\* triplets that are not equal exactly one is less than the other.
C22_LessThanDefinite ==
    compared.done
    => \A p \in Pairs :
         /\ compared.lt[p] \in {"True", "False"}
         /\ ~compared.eq[p]
              => (IsTrue(compared.lt[p]) # IsTrue(compared.lt[Swap(p)]))

\* C23: equality of triplets is transitive, less-than is transitive, and
\* equal triplets are not less than each other in either direction.
C23_ComparisonConsistent ==
    compared.done
    => /\ \A p, q \in Pairs :
            (p[2] = q[1] /\ compared.eq[p] /\ compared.eq[q])
            => compared.eq[<<p[1], q[2]>>]
       /\ \A p, q \in Pairs :
            (p[2] = q[1] /\ IsTrue(compared.lt[p]) /\ IsTrue(compared.lt[q]))
            => IsTrue(compared.lt[<<p[1], q[2]>>])
       /\ \A p \in Pairs :
            compared.eq[p]
            => ~IsTrue(compared.lt[p]) /\ ~IsTrue(compared.lt[Swap(p)])

\* 1.2.0, 1.2.0.1 and 1.2.0 were compared: equal by their three fields.
C23_Witness ==
    /\ compared.done
    /\ operands = <<V120, V1201, V120>>
    /\ compared.eq[<<1, 2>>]
    /\ compared.eq[<<2, 3>>]
    /\ compared.eq[<<1, 3>>]
    /\ ~IsTrue(compared.lt[<<1, 2>>])

\* ------------------------------------------------------------------------
\* Properties of SysCommandWorker

\* The offsets at or after cursor where needle occurs in log.
OccurrencesFrom(log, needle, cursor) ==
    {k \in (IF cursor < 0 THEN 0 ELSE cursor)..(Len(log) - Len(needle)) :
        SubSeq(log, k + 1, k + Len(needle)) = needle}

\* C9: a containment test of a needle answers True exactly when the needle
\* occurs in the trace log at or after the cursor; on True the cursor is
\* left just past the first such occurrence, on False it stays where it was.
C9_ContainsAdvancesCursor ==
    (lastOp.op = "contains" /\ lastOp.key # <<>>)
    => LET found == OccurrencesFrom(session.trace_log, lastOp.key, lastOp.pos)
       IN  /\ lastOp.result <=> (found # {})
           /\ lastOp.result
                => \E k \in found :
                     /\ \A j \in found : k <= j
                     /\ session.trace_log_pos = k + Len(lastOp.key)
           /\ ~lastOp.result => session.trace_log_pos = lastOp.pos

\* The non-empty lines of log that start at or after cursor and are ended by
\* a newline of log, as they are handed out.
CompleteLines(log, cursor, strip) ==
    LET ends == {k \in 1..Len(log) : log[k] = chNL /\ k > cursor}
        last == CHOOSE k \in ends : \A j \in ends : j <= k
    IN  IF ends = {} THEN <<>>
        ELSE YieldEach(Split(SubSeq(log, (IF cursor < 0 THEN 0 ELSE cursor) + 1, last - 1), <<chNL>>), strip)

\* C10: an iteration yields the complete lines from the cursor on and
\* nothing else, and leaves the cursor inside the log, so that what follows
\* the last newline is kept for a later iteration.
C10_CompleteLinesOnly ==
    lastOp.op = "iter"
    => /\ lastOp.lines = CompleteLines(session.trace_log, lastOp.pos,
                                       session.remove_vt100_escape_codes_from_lines)
       /\ session.trace_log_pos \in 0..Len(session.trace_log)

\* C27: with poll, containment tests and iterations only, the read cursor
\* never moves back, so that no byte a containment test has passed is
\* matched by a later one.
C27_CursorNeverDecreases ==
    [][session'.trace_log_pos >= session.trace_log_pos]_vars

\* C28: after any polls, containment tests, iterations, tells and seeks the
\* read cursor lies within the trace log.
C28_CursorWithinLog ==
    /\ 0 <= session.trace_log_pos
    /\ session.trace_log_pos <= Len(session.trace_log)

\* The directories of the search path that hold a file of that name.
Holding(name) == {k \in 1..Len(searchPath) : name \in searchPath[k].files}

\* cmd[0] is an absolute path, or a relative one written with ./
IsAbsolute(name) == Head(name) = chSlash
IsExplicitlyRelative(name) == Len(name) >= 2 /\ name[1] = chDot /\ name[2] = chSlash

\* C24: a cmd[0] that is neither absolute nor explicitly relative and is in
\* no directory of the search path makes the construction fail with
\* RequirementError, and no child is forked; one that is found becomes the
\* entry of the first directory, in path order, that holds it itself.
C24_LocatedFirstOrFails ==
    /\ located.state = "RequirementError" => child = NoChild
    /\ (located.state # "none" /\ ~IsAbsolute(argv0) /\ ~IsExplicitlyRelative(argv0))
         => IF Holding(argv0) = {}
            THEN located.state = "RequirementError"
            ELSE /\ located.state = "ok"
                 /\ located.path = Roots[Min(Holding(argv0))] \o <<chSlash>> \o argv0

\* `a` is a file of both directories of the path, and the worker was
\* constructed for the first one's.
C24_Witness ==
    /\ argv0 = NameA
    /\ Len(searchPath) = 2
    /\ Holding(NameA) = {1, 2}
    /\ located = [state |-> "ok", path |-> Roots[1] \o <<chSlash>> \o NameA]
    /\ child.state # "none"

\* ------------------------------------------------------------------------
\* Properties of scoped use and of create_session

\* C11: when __exit__ has run on a spawned session the child's descriptor is
\* closed, whether the block ended normally or by an exception, and whether
\* __exit__ itself returned or raised.
C11_DescriptorClosedAfterScope ==
    (lastOp.op = "exit" /\ session.started) => ~child.fd_open

\* __exit__ ran after an exception in the block of a spawned session and
\* raised SysCallError itself; the descriptor is closed.
C11_Witness ==
    /\ lastOp.op = "exit"
    /\ lastOp.result
    /\ lastOp.error = "SysCallError"
    /\ session.started
    /\ ~child.fd_open

\* C12: once the child's exit was recorded, __exit__ raises SysCallError with
\* the child's exit status and at most the first 100 decoded characters of
\* the log when that status is not zero, and raises nothing when it is zero.
C12_ExitRaisesOnFailure ==
    (lastOp.op = "exit" /\ child.state = "exited" /\ session.ended)
    => IF child.status # 0
       THEN /\ lastOp.error = "SysCallError"
            /\ lastOp.code = child.status
            /\ Len(lastOp.message) <= MessageLimit
            /\ Utf8Decode(session.trace_log).ok
                 => lastOp.message
                      = SubSeq(Utf8Decode(session.trace_log).chars, 1, Len(lastOp.message))
       ELSE lastOp.error = ""

\* C31: __exit__ raises SysCallError whenever exit_code is not 0, the unset
\* exit code of a child never seen to end included, and returns silently
\* only when exit_code is 0.
C31_ExitRaisesUnlessZero ==
    lastOp.op = "exit"
    => IF session.exit_code = 0
       THEN lastOp.error = ""
       ELSE lastOp.error = "SysCallError" /\ lastOp.code = session.exit_code

C14_PollAfterEndChangesNothing ==
    [][session.ended
       => /\ session'.exit_code = session.exit_code
          /\ session'.trace_log = session.trace_log
          /\ lastOp'.op = "poll" => ~lastOp'.result]_vars

CollectDone == caller \in {"returned", "failed"}

====
